---- MODULE Spec2Model ----
(***************************************************************************)
(* Model of the resume evaluation pipeline of ATS_System:                  *)
(*   main.py       ResumeEvaluation (schema), ResumeEvaluator              *)
(*                 (extract_text, evaluate_resume, process_directory)      *)
(*   interface.py  main / process_resumes (the upload layer)               *)
(*   create_template.py  the template's column headers                     *)
(* Values that Python keeps in dicts and DataFrame cells are tagged cells: *)
(* I(n) an integer, S(s) a string, NaN a blank cell.                       *)
(***************************************************************************)
EXTENDS Integers, Sequences, FiniteSets, TLC

VARIABLES
  files,          \* os.listdir(dir_path): the file names, in listing order
  template,       \* the column headers of the file at template_path, or NoTemplate
  pc,             \* position of the running call
  i,              \* index in files of the file the loop is at
  text,           \* local `text` of process_directory
  answer,         \* the structured answer of the model, until it is validated
  response_dict,  \* local `response_dict` of process_directory
  err,            \* the exception caught by `except Exception as e` (its str)
  mapped_results, \* local `mapped_results`: the list of row dicts
  llm_calls,      \* every self.chain.invoke, in call order
  raised,         \* every exception raised inside the loop's try block
  output,         \* what to_excel wrote at output_path, or NoOutput
  ui              \* what interface.main showed the caller

vars == <<files, template, pc, i, text, answer, response_dict, err,
          mapped_results, llm_calls, raised, output, ui>>

\* The largest directory listing explored.
MaxFiles == 2

(***************************************************************************)
(* Cells and dicts                                                         *)
(***************************************************************************)
NaN == [t |-> "nan"]
I(n) == [t |-> "int", v |-> n]
S(s) == [t |-> "str", v |-> s]

Range(s) == {s[k] : k \in DOMAIN s}

\* A Python dict: its keys in insertion order and the value of each key.
Dict(keys, val) == [keys |-> keys, val |-> val]
HasKey(d, k) == k \in Range(d.keys)

(***************************************************************************)
(* ResumeEvaluation: main.py:11-32                                         *)
(***************************************************************************)
ScoreFields ==
  << "core_experience_legal_ops", "core_experience_patent_filing",
     "core_experience_contracts", "specialized_knowledge_patent_law",
     "specialized_knowledge_fundraising", "skills_legal_drafting",
     "skills_organizational", "cultural_fit_founder",
     "cultural_fit_confidentiality", "cultural_fit_balance",
     "education_degree", "education_certifications", "bonus_prior_work",
     "bonus_international_exposure" >>

\* The le= bound of every integer field (ge= is 0 for all of them).
FieldMax(f) ==
  CASE f \in { "core_experience_legal_ops", "core_experience_patent_filing",
               "core_experience_contracts", "specialized_knowledge_patent_law",
               "specialized_knowledge_fundraising", "skills_legal_drafting",
               "skills_organizational" } -> 10
    [] f \in { "cultural_fit_founder", "cultural_fit_confidentiality",
               "cultural_fit_balance", "education_degree",
               "education_certifications" } -> 5
    [] f = "bonus_prior_work" -> 3
    [] f = "bonus_international_exposure" -> 2
    [] f = "total_score" -> 100

IntFields == Range(ScoreFields) \cup {"total_score"}
StrFields == {"name", "justification"}
AllFields == IntFields \cup StrFields \cup {"recommendation"}

\* The Literal[...] of `recommendation`.
Recommendations ==
  { "Strongly Recommended for Interview", "Recommended for Interview",
    "Consider with Caution", "Not Suitable" }

\* Field(..., ge=0, le=max) on an int field: a present integer within bounds.
IntFieldOk_NoUpperBound(args, f) ==
  /\ f \in DOMAIN args
  /\ args[f].t = "int"
  /\ args[f].v >= 0

IntFieldOk(args, f) ==
  /\ f \in DOMAIN args
  /\ args[f].t = "int"
  /\ args[f].v >= 0
  /\ args[f].v <= FieldMax(f)

\* pydantic validation of the structured output against ResumeEvaluation:
\* every field is required (...), ints are bounded, recommendation is one of
\* the four literals. Nothing relates total_score or recommendation to the
\* sub-scores.
Validate(args) ==
  /\ \A f \in IntFields : IntFieldOk(args, f)
  /\ \A f \in StrFields : f \in DOMAIN args /\ args[f].t = "str"
  /\ "recommendation" \in DOMAIN args
  /\ args["recommendation"].t = "str"
  /\ args["recommendation"].v \in Recommendations

(***************************************************************************)
(* The prompt's scoring key: main.py:122-126                               *)
(***************************************************************************)
ScoringKey(T) ==
  IF T >= 85 THEN "Strongly Recommended for Interview"
  ELSE IF T >= 70 THEN "Recommended for Interview"
  ELSE IF T >= 50 THEN "Consider with Caution"
  ELSE "Not Suitable"

RECURSIVE SumFrom(_, _)
SumFrom(d, k) ==
  IF k > Len(ScoreFields) THEN 0 ELSE d[ScoreFields[k]].v + SumFrom(d, k + 1)

\* The sum of the 14 per-criterion scores of a dict holding them as integers.
SumScores(d) == SumFrom(d, 1)

(***************************************************************************)
(* The files a directory may hold. A file is its extension as written in   *)
(* its name, whether its bytes parse (corrupt), and its parts: the pages   *)
(* of a PDF (page.extract_text() gives text, "" or None) or the paragraphs *)
(* of a DOCX. A text is a sequence of tokens; "" is <<>>.                   *)
(***************************************************************************)
Page(t) == [none |-> FALSE, text |-> t]
NonePage == [none |-> TRUE, text |-> <<>>]

FS ==
  [ name \in { "a.pdf", "scan.pdf", "bad.pdf", "B.PDF", "c.docx", "empty.docx",
               "blank.docx", "bad.docx", "old.doc", "notes.txt" } |->
    CASE name = "a.pdf"      -> [ext |-> "pdf",  corrupt |-> FALSE,
                                 parts |-> <<Page(<<"jane">>), Page(<<"doe">>)>>]
      [] name = "scan.pdf"   -> [ext |-> "pdf",  corrupt |-> FALSE,
                                 parts |-> <<NonePage, Page(<<>>)>>]
      [] name = "bad.pdf"    -> [ext |-> "pdf",  corrupt |-> TRUE, parts |-> <<>>]
      [] name = "B.PDF"      -> [ext |-> "PDF",  corrupt |-> FALSE,
                                 parts |-> <<Page(<<"bob">>)>>]
      [] name = "c.docx"     -> [ext |-> "docx", corrupt |-> FALSE,
                                 parts |-> <<Page(<<"carol">>), Page(<<"llb">>)>>]
      [] name = "empty.docx" -> [ext |-> "docx", corrupt |-> FALSE, parts |-> <<>>]
      [] name = "blank.docx" -> [ext |-> "docx", corrupt |-> FALSE,
                                 parts |-> <<Page(<<>>)>>]
      [] name = "bad.docx"   -> [ext |-> "docx", corrupt |-> TRUE, parts |-> <<>>]
      [] name = "old.doc"    -> [ext |-> "doc",  corrupt |-> FALSE,
                                 parts |-> <<Page(<<"dave">>)>>]
      [] name = "notes.txt"  -> [ext |-> "txt",  corrupt |-> FALSE,
                                 parts |-> <<Page(<<"erin">>)>>] ]

FileNames == DOMAIN FS

\* str.lower() on the extensions that occur.
Lower(ext) == IF ext = "PDF" THEN "pdf" ELSE ext

\* file_path.lower().endswith('.' + suffix)
EndsWith(name, suffix) == Lower(FS[name].ext) = suffix

\* for page in reader.pages: text += page.extract_text() or ""
RECURSIVE PdfText(_)
PdfText(pages) ==
  IF pages = <<>> THEN <<>>
  ELSE (IF Head(pages).none THEN <<>> ELSE Head(pages).text) \o PdfText(Tail(pages))

\* for para in doc.paragraphs: text += para.text + "\n"
RECURSIVE DocxText(_)
DocxText(paras) ==
  IF paras = <<>> THEN <<>>
  ELSE Head(paras).text \o <<"\n">> \o DocxText(Tail(paras))

Returned(t) == [raised |-> FALSE, text |-> t, error |-> ""]
Raised(e) == [raised |-> TRUE, text |-> <<>>, error |-> e]

\* A variant of extract_text that swallows parser errors and returns "".
extract_text_swallow(name) ==
  IF EndsWith(name, "pdf") THEN
    IF FS[name].corrupt THEN Returned(<<>>) ELSE Returned(PdfText(FS[name].parts))
  ELSE IF EndsWith(name, "docx") THEN
    IF FS[name].corrupt THEN Returned(<<>>) ELSE Returned(DocxText(FS[name].parts))
  ELSE Returned(<<>>)

\* ResumeEvaluator.extract_text: PdfReader / Document raise on bytes they
\* cannot parse and nothing in extract_text catches it; a name ending in
\* neither .pdf nor .docx falls through both branches and returns "".
extract_text(name) ==
  IF EndsWith(name, "pdf") THEN
    IF FS[name].corrupt THEN Raised("PdfReadError")
    ELSE Returned(PdfText(FS[name].parts))
  ELSE IF EndsWith(name, "docx") THEN
    IF FS[name].corrupt THEN Raised("PackageNotFoundError")
    ELSE Returned(DocxText(FS[name].parts))
  ELSE Returned(<<>>)

\* The directory listings explored: up to MaxFiles distinct names, any order.
RECURSIVE Listings(_)
Listings(n) ==
  IF n = 0 THEN {<<>>}
  ELSE LET shorter == Listings(n - 1)
       IN shorter \cup { Append(l, f) : l \in {m \in shorter : Len(m) = n - 1},
                                        f \in FileNames }

DistinctListings ==
  { l \in Listings(MaxFiles) : \A a, b \in DOMAIN l : a # b => l[a] # l[b] }

(***************************************************************************)
(* The template and the column dictionary.                                 *)
(* The en dash of "6-10 years" is written "-" here, in both tables.        *)
(***************************************************************************)
\* create_template.py: the headers of template.xlsx.
columns ==
  << "Candidate Name",
     "Core Experience: 6-10 years in Legal Ops / IP / Startup-facing roles",
     "Core Experience: Patent filing coordination (India, PCT, USPTO, EPO)",
     "Core Experience: Drafting & enforcing contracts (NDAs, MSAs, investor agreements)",
     "Specialized Knowledge: Indian + International Patent Law & PCT process",
     "Specialized Knowledge: Fundraising legalities (SAFE/convertible notes, investor term sheets)",
     "Skills: Legal drafting, research & litigation support",
     "Skills: Organizational & multitasking (repositories, audit-ready records, multiple priorities)",
     "Cultural Fit: Worked closely with Founders / CXOs",
     "Cultural Fit: Confidentiality, accuracy, maturity",
     "Cultural Fit: Balancing risk governance with innovation speed",
     "Education: LLB/LLM or paralegal/legal qualification",
     "Education: Certifications, memberships, publications in IP/Patent Law",
     "Bonus: Prior work with VC/PE portfolio companies / tech startups",
     "Bonus: International exposure (cross-border filings, global counsel coordination)",
     "Total Score",
     "recommendation",
     "justification" >>

\* self.column_map: header -> ResumeEvaluation field.
column_map ==
  ( "Candidate Name" :> "name" ) @@
  ( "Core Experience: 6-10 years in Legal Ops / IP / Startup-facing roles"
      :> "core_experience_legal_ops" ) @@
  ( "Core Experience: Patent filing coordination (India, PCT, USPTO, EPO)"
      :> "core_experience_patent_filing" ) @@
  ( "Core Experience: Drafting & enforcing contracts (NDAs, MSAs, investor agreements)"
      :> "core_experience_contracts" ) @@
  ( "Specialized Knowledge: Indian + International Patent Law & PCT process"
      :> "specialized_knowledge_patent_law" ) @@
  ( "Specialized Knowledge: Fundraising legalities (SAFE/convertible notes, investor term sheets)"
      :> "specialized_knowledge_fundraising" ) @@
  ( "Skills: Legal drafting, research & litigation support"
      :> "skills_legal_drafting" ) @@
  ( "Skills: Organizational & multitasking (repositories, audit-ready records, multiple priorities)"
      :> "skills_organizational" ) @@
  ( "Cultural Fit: Worked closely with Founders / CXOs" :> "cultural_fit_founder" ) @@
  ( "Cultural Fit: Confidentiality, accuracy, maturity"
      :> "cultural_fit_confidentiality" ) @@
  ( "Cultural Fit: Balancing risk governance with innovation speed"
      :> "cultural_fit_balance" ) @@
  ( "Education: LLB/LLM or paralegal/legal qualification" :> "education_degree" ) @@
  ( "Education: Certifications, memberships, publications in IP/Patent Law"
      :> "education_certifications" ) @@
  ( "Bonus: Prior work with VC/PE portfolio companies / tech startups"
      :> "bonus_prior_work" ) @@
  ( "Bonus: International exposure (cross-border filings, global counsel coordination)"
      :> "bonus_international_exposure" ) @@
  ( "Total Score" :> "total_score" ) @@
  ( "recommendation" :> "recommendation" ) @@
  ( "justification" :> "justification" )

\* What pd.read_excel(template_path) may find: the generated template, a
\* template with a header of the user's own, one with a header "name", one
\* with no mapped header, or no file at all.
Templates ==
  { [exists |-> TRUE,  columns |-> columns],
    [exists |-> TRUE,  columns |-> columns \o <<"Notes">>],
    [exists |-> TRUE,  columns |-> columns \o <<"name">>],
    [exists |-> TRUE,  columns |-> <<"Notes">>],
    [exists |-> FALSE, columns |-> <<>>] }

\* for col in df.columns: key = self.column_map.get(col);
\*   if key and key in response_dict: ...
Mapped(col, resp) == col \in DOMAIN column_map /\ column_map[col] \in DOMAIN resp

\* The row dict of one evaluated file: the template's columns, filled through
\* column_map (blank where a header has no mapping), then the column "name"
\* set to the file name (df["name"] = filename), then df.iloc[0].to_dict().
RowKeys(cols) == IF "name" \in Range(cols) THEN cols ELSE cols \o <<"name">>

\* A variant of MappedRow that leaves "name" to the candidate name.
MappedRow_NoFilename(cols, resp, filename) ==
  Dict(cols,
       [c \in Range(cols) |-> IF Mapped(c, resp) THEN resp[column_map[c]] ELSE NaN])

\* A variant of MappedRow that writes the field's name, not its value.
MappedRow_WritesKey(cols, resp, filename) ==
  Dict(RowKeys(cols),
       [c \in Range(RowKeys(cols)) |->
          IF c = "name" THEN S(filename)
          ELSE IF Mapped(c, resp) THEN S(column_map[c])
          ELSE NaN])

MappedRow(cols, resp, filename) ==
  Dict(RowKeys(cols),
       [c \in Range(RowKeys(cols)) |->
          IF c = "name" THEN S(filename)
          ELSE IF Mapped(c, resp) THEN resp[column_map[c]]
          ELSE NaN])

\* df.at[0, col] = ... creates row 0; with no mapped header the frame stays
\* empty and df.iloc[0] raises IndexError.
HasRow0(cols, resp) == \E k \in DOMAIN cols : Mapped(cols[k], resp)

\* A variant of FailureRecord that keeps only the file name.
FailureRecord_NoError(filename, e) ==
  Dict(<<"name">>, [c \in {"name"} |-> S(filename)])

\* except Exception as e: {"name": filename, "error": str(e)}
FailureRecord(filename, e) ==
  Dict(<<"name", "error">>,
       [c \in {"name", "error"} |-> IF c = "name" THEN S(filename) ELSE S(e)])

(***************************************************************************)
(* pd.DataFrame(mapped_results) and to_excel(index=False)                  *)
(***************************************************************************)
\* The columns of a frame built from a list of dicts: every key, in order of
\* first appearance.
RECURSIVE AddKeys(_, _)
AddKeys(acc, keys) ==
  IF keys = <<>> THEN acc
  ELSE AddKeys(IF Head(keys) \in Range(acc) THEN acc ELSE Append(acc, Head(keys)),
               Tail(keys))

RECURSIVE FrameColumns(_, _)
FrameColumns(acc, dicts) ==
  IF dicts = <<>> THEN acc
  ELSE FrameColumns(AddKeys(acc, Head(dicts).keys), Tail(dicts))

\* One frame row per dict, in list order; a key a dict lacks is a blank cell.
DataFrame(dicts) ==
  LET cols == FrameColumns(<<>>, dicts)
  IN [ columns |-> cols,
       rows |-> [k \in DOMAIN dicts |->
                   [c \in Range(cols) |->
                      IF HasKey(dicts[k], c) THEN dicts[k].val[c] ELSE NaN]] ]

(***************************************************************************)
(* What the model behind self.chain may answer. The code does not decide   *)
(* it, so every evaluation draws one answer from this set.                 *)
(***************************************************************************)
ZeroScores == [f \in Range(ScoreFields) |-> 0]
FullScores == [f \in Range(ScoreFields) |-> FieldMax(f)]
ScoreVectors == {ZeroScores, FullScores}

VectorSum(b) == SumScores([f \in Range(ScoreFields) |-> I(b[f])])

\* A structured answer with sub-scores b, total t and recommendation r.
Answer(b, t, r) ==
  [f \in AllFields |->
     IF f \in Range(ScoreFields) THEN I(b[f])
     ELSE IF f = "total_score" THEN I(t)
     ELSE IF f = "recommendation" THEN S(r)
     ELSE IF f = "name" THEN S("Candidate")
     ELSE S("because")]

\* Answers within every declared bound with sub-scores b: the total is the
\* sum or is not, the recommendation follows the scoring key or does not.
AnswersWith(b) ==
  UNION { { Answer(b, t, r) : r \in {ScoringKey(t), "Not Suitable"} }
            : t \in {VectorSum(b), FieldMax("total_score")} }

BoundedAnswers == UNION { AnswersWith(b) : b \in ScoreVectors }

GoodAnswer == Answer(FullScores, VectorSum(FullScores), ScoringKey(VectorSum(FullScores)))

\* Answers with one integer field below 0 or above its maximum.
OutOfBoundAnswers ==
  UNION { { [GoodAnswer EXCEPT ![f] = I(v)] : v \in {-1, FieldMax(f) + 1} }
            : f \in IntFields }

\* Answers with one field missing.
MissingFieldAnswers ==
  { [g \in AllFields \ {f} |-> GoodAnswer[g]] : f \in AllFields }

\* Answers with a value of the wrong kind.
IllTypedAnswers ==
  { [GoodAnswer EXCEPT !["recommendation"] = S("Maybe")],
    [GoodAnswer EXCEPT !["total_score"] = S("high")],
    [GoodAnswer EXCEPT !["name"] = I(7)] }

LLMAnswers ==
  BoundedAnswers \cup OutOfBoundAnswers \cup MissingFieldAnswers \cup IllTypedAnswers

\* One self.chain.invoke: the prompt's only input variable is resume_text
\* (the job description is fixed text of the prompt template).
\* `file` notes which file of the listing the call was made for.
Invocation(file, resume_text) ==
  [file |-> file, inputs |-> [resume_text |-> resume_text]]

(***************************************************************************)
(* interface.py                                                            *)
(***************************************************************************)
\* The methods class ResumeEvaluator defines (main.py:34-205).
ResumeEvaluatorMethods ==
  {"__init__", "extract_text", "evaluate_resume", "process_directory"}

NoUi == [shown |-> "nothing", detail |-> "", api_key |-> "", jd |-> "", resumes |-> <<>>]

\* process_resumes: saves the uploads, builds the evaluator and calls
\* evaluator.process_folder(...); every exception ends in st.error.
process_resumes(api_key, job_description_file, resume_files) ==
  IF "process_folder" \in ResumeEvaluatorMethods
  THEN [shown |-> "results", detail |-> "",
        api_key |-> api_key, jd |-> job_description_file, resumes |-> resume_files]
  ELSE [shown |-> "error", detail |-> "AttributeError",
        api_key |-> api_key, jd |-> job_description_file, resumes |-> resume_files]

(***************************************************************************)
(* State machine                                                           *)
(***************************************************************************)
NoOutput == [written |-> FALSE, columns |-> <<>>, rows |-> <<>>]

Init ==
  /\ files \in DistinctListings
  /\ template \in Templates
  /\ pc = "idle"
  /\ i = 1
  /\ text = <<>>
  /\ answer = <<>>
  /\ response_dict = <<>>
  /\ err = ""
  /\ mapped_results = <<>>
  /\ llm_calls = <<>>
  /\ raised = <<>>
  /\ output = NoOutput
  /\ ui = NoUi

\* interface.main with the button pressed: process_resumes runs when the key,
\* the job description and the resumes are all there, else st.info names
\* what is missing.
Main ==
  /\ pc = "idle"
  /\ \E api_key \in {"", "sk-key"}, jd \in {"", "jd.pdf"} :
       ui' = IF api_key # "" /\ jd # "" /\ files # <<>>
             THEN process_resumes(api_key, jd, files)
             ELSE [shown |-> "info", detail |-> "Please provide",
                   api_key |-> api_key, jd |-> jd, resumes |-> files]
  /\ pc' = "ui_done"
  /\ UNCHANGED <<files, template, i, text, answer, response_dict, err, mapped_results,
                 llm_calls, raised, output>>

\* process_directory is called: mapped_results = [] and the loop starts.
ProcessDirectory ==
  /\ pc = "idle"
  /\ mapped_results' = <<>>
  /\ i' = 1
  /\ pc' = "for"
  /\ UNCHANGED <<files, template, text, answer, response_dict, err, llm_calls, raised,
                 output, ui>>

\* try: text = self.extract_text(file_path)
Extract ==
  /\ pc = "for"
  /\ i <= Len(files)
  /\ LET r == extract_text(files[i])
     IN IF r.raised
        THEN /\ err' = r.error
             /\ raised' = Append(raised, [name |-> files[i], error |-> r.error])
             /\ pc' = "except"
             /\ UNCHANGED text
        ELSE /\ text' = r.text
             /\ pc' = "if_not_text"
             /\ UNCHANGED <<err, raised>>
  /\ UNCHANGED <<files, template, i, answer, response_dict, mapped_results,
                 llm_calls, output, ui>>

\* A variant of IfNotText that goes on to the evaluation whatever the text.
IfNotText_NoCheck ==
  /\ pc = "if_not_text"
  /\ pc' = "evaluate"
  /\ UNCHANGED <<files, template, i, text, answer, response_dict, err,
                 mapped_results, llm_calls, raised, output, ui>>

\* if not text: continue
IfNotText ==
  /\ pc = "if_not_text"
  /\ IF text = <<>>
     THEN /\ i' = i + 1
          /\ pc' = "for"
     ELSE /\ pc' = "evaluate"
          /\ UNCHANGED i
  /\ UNCHANGED <<files, template, text, answer, response_dict, err, mapped_results,
                 llm_calls, raised, output, ui>>

\* response_dict = self.evaluate_resume(text), first half: self.chain.invoke
\* sends the prompt; the request fails or the model answers.
Invoke ==
  /\ pc = "evaluate"
  /\ llm_calls' = Append(llm_calls, Invocation(files[i], text))
  /\ \/ /\ \E args \in LLMAnswers : answer' = args
        /\ pc' = "validate"
        /\ UNCHANGED <<err, raised>>
     \/ /\ err' = "APIError"
        /\ raised' = Append(raised, [name |-> files[i], error |-> "APIError"])
        /\ pc' = "except"
        /\ UNCHANGED answer
  /\ UNCHANGED <<files, template, i, text, response_dict, mapped_results, output, ui>>

\* Second half: with_structured_output(ResumeEvaluation) validates the answer;
\* a valid one is returned and dumped to a dict (model_dump), an invalid one
\* raises.
StructuredOutput ==
  /\ pc = "validate"
  /\ IF Validate(answer)
     THEN /\ response_dict' = answer
          /\ pc' = "map"
          /\ UNCHANGED <<err, raised>>
     ELSE /\ err' = "ValidationError"
          /\ raised' = Append(raised, [name |-> files[i], error |-> "ValidationError"])
          /\ pc' = "except"
          /\ UNCHANGED response_dict
  /\ answer' = <<>>
  /\ UNCHANGED <<files, template, i, text, mapped_results, llm_calls, output, ui>>

\* df = pd.read_excel(template_path) ... mapped_results.append(df.iloc[0].to_dict())
MapRow ==
  /\ pc = "map"
  /\ IF ~template.exists \/ ~HasRow0(template.columns, response_dict)
     THEN LET e == IF ~template.exists THEN "FileNotFoundError" ELSE "IndexError"
          IN /\ err' = e
             /\ raised' = Append(raised, [name |-> files[i], error |-> e])
             /\ pc' = "except"
             /\ UNCHANGED <<mapped_results, i>>
     ELSE /\ mapped_results' =
               Append(mapped_results, MappedRow(template.columns, response_dict, files[i]))
          /\ i' = i + 1
          /\ pc' = "for"
          /\ UNCHANGED <<err, raised>>
  /\ UNCHANGED <<files, template, text, answer, response_dict, llm_calls, output, ui>>

\* A variant of Except that lets the exception leave process_directory.
Except_Reraise ==
  /\ pc = "except"
  /\ pc' = "raised"
  /\ UNCHANGED <<files, template, i, text, answer, response_dict, err, mapped_results,
                 llm_calls, raised, output, ui>>

\* except Exception as e: mapped_results.append({"name": filename, "error": str(e)})
Except ==
  /\ pc = "except"
  /\ mapped_results' = Append(mapped_results, FailureRecord(files[i], err))
  /\ i' = i + 1
  /\ pc' = "for"
  /\ UNCHANGED <<files, template, text, answer, response_dict, err, llm_calls, raised,
                 output, ui>>

\* result_df = pd.DataFrame(mapped_results); result_df.to_excel(output_path);
\* return result_df. A write that fails raises out of process_directory.
WriteReport ==
  /\ pc = "for"
  /\ i > Len(files)
  /\ \/ /\ output' = [written |-> TRUE] @@ DataFrame(mapped_results)
        /\ pc' = "done"
     \/ /\ pc' = "raised"
        /\ UNCHANGED output
  /\ UNCHANGED <<files, template, i, text, answer, response_dict, err, mapped_results,
                 llm_calls, raised, ui>>

Next ==
  \/ Main
  \/ ProcessDirectory
  \/ Extract
  \/ IfNotText
  \/ Invoke
  \/ StructuredOutput
  \/ MapRow
  \/ Except
  \/ WriteReport

Spec == Init /\ [][Next]_vars

(***************************************************************************)
(* Properties                                                              *)
(***************************************************************************)
\* The cell of a frame row under a header; a header the frame lacks is blank.
Cell(row, h) == IF h \in DOMAIN row THEN row[h] ELSE NaN

\* The header column_map sends to a field.
HeaderOf(f) == CHOOSE h \in DOMAIN column_map : column_map[h] = f

IsErrorRow(row) == Cell(row, "error") # NaN
IsFailureDict(d) == HasKey(d, "error")

ExtractionErrors == {"PdfReadError", "PackageNotFoundError"}

\* The file's bytes do not parse and extract_text hands them to a parser.
Unparseable(name) ==
  FS[name].corrupt /\ (EndsWith(name, "pdf") \/ EndsWith(name, "docx"))

\* extract_text returns "" for the file.
NoText(name) == ~extract_text(name).raised /\ extract_text(name).text = <<>>

\* The exception raised[k] has its failure record in mapped_results.
Recorded(k) ==
  \E r \in DOMAIN mapped_results :
    /\ IsFailureDict(mapped_results[r])
    /\ mapped_results[r].val["name"] = S(raised[k].name)
    /\ mapped_results[r].val["error"] = S(raised[k].error)

\* C1: every exception raised inside the loop's try block, while extracting
\* or evaluating one file, ends as a failure record with that file's name
\* and the error message; the loop goes on to the end of the listing, no
\* such exception leaves process_directory, and the written report holds
\* the failure rows beside the rows of the other files.
C1_PerFileFailureIsolated ==
  /\ \A k \in DOMAIN raised : (pc = "except" /\ k = Len(raised)) \/ Recorded(k)
  /\ pc = "raised" => i > Len(files)
  /\ pc = "done" =>
       /\ i = Len(files) + 1
       /\ Len(output.rows) = Len(mapped_results)
       /\ \A k \in DOMAIN raised :
            \E r \in DOMAIN output.rows :
              /\ output.rows[r]["name"] = S(raised[k].name)
              /\ output.rows[r]["error"] = S(raised[k].error)

\* A finished batch of two files whose first file failed and whose second
\* file has an ordinary row.
C1_Witness ==
  /\ pc = "done"
  /\ Len(files) = 2
  /\ Len(raised) = 1
  /\ raised[1].name = files[1]
  /\ Len(output.rows) = 2
  /\ IsErrorRow(output.rows[1])
  /\ ~IsErrorRow(output.rows[2])

\* The score cells of a frame row, by field.
ScoreCell(row, f) == Cell(row, HeaderOf(f))
AllScoresZero(row) == \A f \in IntFields : ScoreCell(row, f) = I(0)
AllScoresOrdinary(row) ==
  \A f \in IntFields :
    /\ ScoreCell(row, f).t = "int"
    /\ ScoreCell(row, f).v >= 0
    /\ ScoreCell(row, f).v <= FieldMax(f)

\* A finished batch, on the generated template, in which exactly one file is
\* corrupt, every other file has text and the corrupt file is the only
\* failure.
OneCorruptFileBatch ==
  /\ pc = "done"
  /\ Len(files) >= 2
  /\ template.exists
  /\ template.columns = columns
  /\ Cardinality({k \in DOMAIN files : Unparseable(files[k])}) = 1
  /\ \A k \in DOMAIN files : ~Unparseable(files[k]) => ~NoText(files[k])
  /\ Len(raised) = 1
  /\ Unparseable(raised[1].name)

\* C2: a batch of N files with exactly one corrupt file gives N rows, exactly
\* one of them with an error annotation and zero scores, the others with
\* ordinary scores.
C2_OneCorruptRowZeroScores ==
  OneCorruptFileBatch =>
    /\ Len(output.rows) = Len(files)
    /\ Cardinality({r \in DOMAIN output.rows : IsErrorRow(output.rows[r])}) = 1
    /\ \A r \in DOMAIN output.rows :
         IF IsErrorRow(output.rows[r])
         THEN AllScoresZero(output.rows[r])
         ELSE AllScoresOrdinary(output.rows[r])

\* C3: every file whose extracted text is empty has a sentinel failure row in
\* the report: its file name, zero scores, "Not Suitable" and an error note.
C3_EmptyTextSentinelRow ==
  pc = "done" =>
    \A k \in DOMAIN files :
      NoText(files[k]) =>
        \E r \in DOMAIN output.rows :
          /\ Cell(output.rows[r], "name") = S(files[k])
          /\ IsErrorRow(output.rows[r])
          /\ Cell(output.rows[r], "recommendation") = S("Not Suitable")
          /\ AllScoresZero(output.rows[r])

\* C4: a run started from the upload layer ends with a report or with one
\* fatal error about a whole-batch precondition; with a credential, a job
\* description and at least one resume it ends with a report.
C4_UploadRunEndsWithReport ==
  pc = "ui_done" =>
    /\ ui.shown = "error" =>
         ui.detail \in {"missing job description text", "missing credential"}
    /\ (ui.api_key # "" /\ ui.jd # "" /\ ui.resumes # <<>>) => ui.shown = "results"

\* A call of the chain that summarizes a job description takes the job
\* description as its input.
IsSummarization(call) == "job_description" \in DOMAIN call.inputs

\* C5: in a finished batch that evaluated a resume the job description was
\* summarized exactly once, before every resume evaluation.
C5_SummarizedExactlyOnce ==
  (pc = "done" /\ llm_calls # <<>>) =>
    /\ Cardinality({k \in DOMAIN llm_calls : IsSummarization(llm_calls[k])}) = 1
    /\ \A k \in DOMAIN llm_calls : k > 1 => ~IsSummarization(llm_calls[k])

\* C6: the report has one row per resume file, in listing order.
C6_OneRowPerFileInOrder ==
  pc = "done" =>
    /\ Len(output.rows) = Len(files)
    /\ \A k \in DOMAIN files : Cell(output.rows[k], "name") = S(files[k])

\* An integer field of a structured answer is present and within its bounds.
InDeclaredRange(a, f) ==
  /\ f \in DOMAIN a
  /\ a[f].t = "int"
  /\ a[f].v \in 0 .. FieldMax(f)

\* Every accepted evaluation holds every integer field within its bounds:
\* the dict about to be mapped, and every row mapped so far.
AcceptedWithinBounds ==
  /\ pc = "map" => \A f \in IntFields : InDeclaredRange(response_dict, f)
  /\ \A r \in DOMAIN mapped_results :
       ~IsFailureDict(mapped_results[r]) =>
         \A k \in DOMAIN mapped_results[r].keys :
           LET h == mapped_results[r].keys[k]
           IN (h \in DOMAIN column_map /\ column_map[h] \in IntFields) =>
                /\ mapped_results[r].val[h].t = "int"
                /\ mapped_results[r].val[h].v \in 0 .. FieldMax(column_map[h])

\* An answer with an out-of-bound or missing integer field is rejected as a
\* validation failure and adds no row; an accepted answer is taken as it is.
RejectedNotClamped ==
  /\ (pc = "validate" /\ \E f \in IntFields : ~InDeclaredRange(answer, f)) =>
       /\ pc' = "except"
       /\ err' = "ValidationError"
       /\ UNCHANGED <<mapped_results, response_dict>>
  /\ (pc = "validate" /\ pc' = "map") => response_dict' = answer

\* C7: an out-of-bound or missing value in any of the 14 sub-scores or in
\* total_score makes the evaluation a validation failure; no accepted record
\* holds an out-of-bound score and no value is clamped.
C7_OutOfBoundRejected == [][RejectedNotClamped]_vars /\ []AcceptedWithinBounds

\* A rejected answer's failure row followed by an accepted answer's row.
C7_Witness ==
  /\ Len(mapped_results) = 2
  /\ IsFailureDict(mapped_results[1])
  /\ mapped_results[1].val["error"] = S("ValidationError")
  /\ ~IsFailureDict(mapped_results[2])
  /\ mapped_results[2].val["Total Score"] = I(FieldMax("total_score"))

\* C8: in every report row of an accepted evaluation the recommendation is
\* the tier of the scoring key that contains the row's total score.
C8_RecommendationFollowsTotal ==
  pc = "done" =>
    \A r \in DOMAIN output.rows :
      (/\ ~IsErrorRow(output.rows[r])
       /\ Cell(output.rows[r], "Total Score") # NaN
       /\ Cell(output.rows[r], "recommendation") # NaN) =>
        Cell(output.rows[r], "recommendation").v =
          ScoringKey(Cell(output.rows[r], "Total Score").v)

\* C9: in every report row of an accepted evaluation the total score is the
\* sum of the 14 per-criterion scores.
C9_TotalIsSumOfScores ==
  pc = "done" =>
    \A r \in DOMAIN output.rows :
      (/\ ~IsErrorRow(output.rows[r])
       /\ \A f \in IntFields : ScoreCell(output.rows[r], f) # NaN) =>
        ScoreCell(output.rows[r], "total_score").v =
          SumScores([f \in Range(ScoreFields) |-> ScoreCell(output.rows[r], f)])

\* C10 as claimed: extract_text never raises; no exception of the loop is an
\* extraction error.
C10_ExtractNeverRaises ==
  \A k \in DOMAIN raised : raised[k].error \notin ExtractionErrors

\* C10 as amended: extract_text returns a text for every file it can parse
\* and empty text, without parsing, for every name ending in neither .pdf
\* nor .docx (a legacy .doc included); on a corrupt .pdf or .docx it raises,
\* process_directory catches the exception and the file's failure record
\* carries the reason, and the batch is not aborted.
C10_ExtractRaisesIntoFailureRow ==
  /\ pc = "if_not_text" =>
       /\ ~Unparseable(files[i])
       /\ (~EndsWith(files[i], "pdf") /\ ~EndsWith(files[i], "docx")) => text = <<>>
       /\ FS[files[i]].parts = <<>> => text = <<>>
  /\ \A k \in DOMAIN files :
       (k < i /\ Unparseable(files[k]) /\ pc \in {"for", "done", "if_not_text",
                                                 "evaluate", "validate", "map", "except"}) =>
         \E r \in DOMAIN mapped_results :
           /\ IsFailureDict(mapped_results[r])
           /\ mapped_results[r].val["name"] = S(files[k])
           /\ mapped_results[r].val["error"] \in {S(e) : e \in ExtractionErrors}
  /\ pc = "raised" => i > Len(files)

\* A finished batch that held a corrupt file and a legacy .doc.
C10_Witness ==
  /\ pc = "done"
  /\ \E k \in DOMAIN files : Unparseable(files[k])
  /\ \E k \in DOMAIN files : FS[files[k]].ext = "doc"
  /\ Len(output.rows) = 1

\* The last file the loop finished was evaluated and mapped, and
\* response_dict still is that file's evaluation.
LastRowIsOfResponse ==
  /\ pc \in {"for", "if_not_text", "evaluate", "validate", "done", "raised"}
  /\ mapped_results # <<>>
  /\ ~IsFailureDict(mapped_results[Len(mapped_results)])

\* Every header of the generated template maps to a ResumeEvaluation field.
GeneratedHeadersMapped ==
  \A k \in DOMAIN columns :
    columns[k] \in DOMAIN column_map /\ column_map[columns[k]] \in AllFields

\* When a record carries an error, the written table has a column "error"
\* holding it.
ErrorIsAColumn ==
  pc = "done" =>
    \A r \in DOMAIN mapped_results :
      IsFailureDict(mapped_results[r]) =>
        /\ "error" \in Range(output.columns)
        /\ output.rows[r]["error"] = mapped_results[r].val["error"]

\* C11 as claimed: in the row of a successful evaluation every template
\* header with a mapping holds the mapped field's value and every header
\* without one is blank; the generated headers all map to fields; errors
\* have a column of their own.
C11_MappedElseBlank ==
  /\ LastRowIsOfResponse =>
       \A k \in DOMAIN template.columns :
         LET h == template.columns[k]
             row == mapped_results[Len(mapped_results)]
         IN /\ HasKey(row, h)
            /\ row.val[h] = IF h \in DOMAIN column_map
                            THEN response_dict[column_map[h]]
                            ELSE NaN
  /\ GeneratedHeadersMapped
  /\ ErrorIsAColumn

\* The row MapRow appends for the file at hand: every template header with
\* a mapping holds the mapped field's value, a header "name" holds the file
\* name, every other header is blank.
RowMappedThroughColumnMap ==
  (pc = "map" /\ pc' = "for") =>
    /\ Len(mapped_results') = Len(mapped_results) + 1
    /\ \A k \in DOMAIN template.columns :
         LET h == template.columns[k]
             row == mapped_results'[Len(mapped_results')]
         IN /\ HasKey(row, h)
            /\ row.val[h] = IF h \in DOMAIN column_map THEN response_dict[column_map[h]]
                            ELSE IF h = "name" THEN S(files[i])
                            ELSE NaN

\* The written table holds every record's cells under the record's headers.
TableHoldsRecords ==
  pc = "done" =>
    \A r \in DOMAIN mapped_results :
      \A k \in DOMAIN mapped_results[r].keys :
        LET h == mapped_results[r].keys[k]
        IN h \in Range(output.columns) /\ output.rows[r][h] = mapped_results[r].val[h]

\* C11 as amended: as claimed, except that a template header "name", which
\* has no mapping, is not blank: it holds the file name.
C11_MappedElseBlankButName ==
  /\ [][RowMappedThroughColumnMap]_vars
  /\ [](TableHoldsRecords /\ GeneratedHeadersMapped /\ ErrorIsAColumn)

\* A finished batch on a template with an unmapped header and a header-less
\* failure: one evaluated row with "Notes" blank beside one failure row.
C11_Witness ==
  /\ pc = "done"
  /\ "Notes" \in Range(template.columns)
  /\ Len(output.rows) = 2
  /\ IsErrorRow(output.rows[1])
  /\ ~IsErrorRow(output.rows[2])
  /\ output.rows[2]["Notes"] = NaN
  /\ output.rows[2]["Total Score"] = I(FieldMax("total_score"))

\* C12: the chain is invoked only with the non-empty text extract_text
\* returned for a file the loop has reached, and at most once per file.
C12_EvaluatorNeverGetsEmptyText ==
  /\ \A k \in DOMAIN llm_calls :
       /\ llm_calls[k].inputs.resume_text # <<>>
       /\ ~extract_text(llm_calls[k].file).raised
       /\ llm_calls[k].inputs.resume_text = extract_text(llm_calls[k].file).text
       /\ \E j \in DOMAIN files : j <= i /\ files[j] = llm_calls[k].file
  /\ \A a, b \in DOMAIN llm_calls :
       a # b => llm_calls[a].file # llm_calls[b].file
  /\ pc = "evaluate" => text # <<>>

\* A finished batch of a file without text and a file with text: one call.
C12_Witness ==
  /\ pc = "done"
  /\ Len(files) = 2
  /\ NoText(files[1])
  /\ Len(llm_calls) = 1
  /\ llm_calls[1].file = files[2]

\* The number of files the loop has visited: those before the file at hand,
\* and the file at hand once the loop body runs on it.
Visited == IF pc \in {"idle", "ui_done", "for", "done", "raised"} THEN i - 1 ELSE i

\* A step leaves mapped_results as it is or appends one row, for the file at
\* hand and named after it.
AppendsOneRow ==
  \/ mapped_results' = mapped_results
  \/ /\ Len(mapped_results') = Len(mapped_results) + 1
     /\ SubSeq(mapped_results', 1, Len(mapped_results)) = mapped_results
     /\ HasKey(mapped_results'[Len(mapped_results')], "name")
     /\ mapped_results'[Len(mapped_results')].val["name"] = S(files[i])
     /\ i' = i + 1

\* Every row, successful or failed, is named after a visited file, no two
\* rows after the same file, and the candidate name of the evaluation shows
\* only under "Candidate Name".
RowsNamedAfterFiles ==
  /\ Len(mapped_results) <= Visited
  /\ \A r \in DOMAIN mapped_results :
       /\ HasKey(mapped_results[r], "name")
       /\ \E j \in DOMAIN files :
            j <= Visited /\ mapped_results[r].val["name"] = S(files[j])
       /\ \A k \in DOMAIN mapped_results[r].keys :
            LET h == mapped_results[r].keys[k]
            IN mapped_results[r].val[h] = S("Candidate") => h = "Candidate Name"
  /\ \A a, b \in DOMAIN mapped_results :
       a < b => \E x, y \in DOMAIN files :
                  /\ x < y
                  /\ mapped_results[a].val["name"] = S(files[x])
                  /\ mapped_results[b].val["name"] = S(files[y])

\* C13: the result sequence is append-only, holds at most one row per file
\* visited, every row has "name" equal to the name of the file it came from,
\* and no row is changed or removed once appended.
C13_AppendOnlyRowsNamedAfterFiles ==
  [][AppendsOneRow]_vars /\ []RowsNamedAfterFiles

\* A finished batch of two evaluated files: two rows named after the files,
\* each with the candidate's name under "Candidate Name".
C13_Witness ==
  /\ pc = "done"
  /\ Len(files) = 2
  /\ Len(mapped_results) = 2
  /\ \A r \in {1, 2} :
       /\ ~IsFailureDict(mapped_results[r])
       /\ mapped_results[r].val["name"] = S(files[r])
       /\ mapped_results[r].val["Candidate Name"] = S("Candidate")

====
